---- MODULE Spec2Model ----
(***************************************************************************)
(* A model of eodatasets2.model.valid_region: the computation of the grid  *)
(* table of a dataset from its per-band rasters.  One call of valid_region *)
(* is one behaviour: Init draws the arguments, the actions are the steps   *)
(* of the call in program order.  resolve_absolute_offset and              *)
(* nest_properties are pure functions: each has a specification of its own *)
(* (SpecResolve, SpecNest) whose Init draws the arguments and whose one    *)
(* action applies the function; SpecTwice calls valid_region a second time *)
(* on the measurements the first call left.  SpecCopy is the copy of the   *)
(* MTL fields in landsat_l2_prepare.prepare_and_write, SpecPackage one     *)
(* call of packagewagl.package, step by step.                              *)
(*                                                                         *)
(* Conventions.                                                            *)
(*   - A string that the code splits or joins on "_" is the sequence of    *)
(*     its "_"-separated pieces: "a" is <<"a">>, "a_b" is <<"a", "b">>,    *)
(*     so "_".join is concatenation.                                       *)
(*   - An Optional value is a set with at most one element: None is {}.    *)
(*   - A raster band and a boolean mask are flat row-major sequences.      *)
(***************************************************************************)
EXTENDS Integers, Sequences, FiniteSets, TLC

\* ---------------------------------------------------------------- bounds
\* The longest measurement list with free names (rasters on two grids).
MaxMeasurements == 4
\* The longest measurement list over every raster of the file system.
MaxRasterMeasurements == 3
\* mask_value ranges over None and 0..MaxMaskValue.
MaxMaskValue == 3
\* Pixels and mask values are below 2^BitWidth.
BitWidth == 3

\* ---------------------------------------------------------------- values
None == {}

Some(v) == {v}

TheValue(opt) == CHOOSE v \in opt : TRUE

DEFAULT == <<"default">>

Range(seq) == {seq[k] : k \in DOMAIN seq}

\* The affine transforms of the rasters (a, b, c, d, e, f, g, h, i).
Transform30 == <<30, 0, 100, 0, -30, 200, 0, 0, 1>>

Transform15 == <<15, 0, 100, 0, -15, 200, 0, 0, 1>>

\* GridDoc: attrs class with structural equality over (shape, transform).
GridDoc(shape, transform) == [shape |-> shape, transform |-> transform]

\* MeasurementDoc as constructed by a caller: grid defaults to "default".
MeasurementDoc(p, n) == [path |-> p, grid |-> DEFAULT, name |-> n]

\* ---------------------------------------------------------------- files
\* The rasters under the dataset path, by offset.  count is the number of
\* bands, nodata the declared nodata value (None when undeclared).
Raster(shape, transform, count, nodata, img) ==
    [shape |-> shape, transform |-> transform, count |-> count,
     nodata |-> nodata, img |-> img]

Files ==
    [f \in {"b1.tif", "b2.tif", "b3.tif", "qa.tif", "full.tif", "rgb.tif"} |->
        CASE f = "b1.tif" -> Raster(<<1, 2>>, Transform30, 1, Some(0), <<0, 1>>)
          [] f = "b2.tif" -> Raster(<<1, 2>>, Transform30, 1, Some(0), <<2, 0>>)
          [] f = "b3.tif" -> Raster(<<1, 2>>, Transform15, 1, Some(3), <<0, 3>>)
          [] f = "qa.tif" -> Raster(<<1, 4>>, Transform30, 1, None, <<0, 1, 2, 3>>)
          [] f = "full.tif" -> Raster(<<2, 4>>, Transform30, 1, Some(0),
                                      <<1, 1, 1, 1, 1, 1, 1, 1>>)
          [] f = "rgb.tif" -> Raster(<<1, 2>>, Transform30, 3, Some(0), <<1, 1>>)]

\* An offset with no file behind it.
MissingOffset == "missing.tif"

Offsets == DOMAIN Files \cup {MissingOffset}

\* ---------------------------------------------------------------- inputs
\* The measurements of a dataset are keyed by name (DatasetDoc.measurements),
\* so the names within one call are pairwise different.
BandNames == <<<<"a">>, <<"b">>, <<"c">>, <<"d">>>>

Names == Range(BandNames) \cup {DEFAULT}

SeqsUpTo(S, n) == UNION {[1..k -> S] : k \in 0..n}

DistinctNames(ms) ==
    \A j, k \in DOMAIN ms : j # k => ms[j].name # ms[k].name

\* Measurement lists with free names, over one raster of each of two grids.
NamedInputs ==
    {ms \in SeqsUpTo({MeasurementDoc(p, n) : p \in {"b1.tif", "b3.tif"},
                                             n \in Names},
                     MaxMeasurements) : DistinctNames(ms)}

\* Measurement lists over every offset, named by position.
RasterInputs ==
    UNION {{[k \in 1..n |-> MeasurementDoc(ps[k], BandNames[k])] :
                ps \in [1..n -> Offsets]} : n \in 0..MaxRasterMeasurements}

MaskValues == {None} \cup {Some(v) : v \in 0..MaxMaskValue}

\* What the caller passes as measurements: a list, or a generator over it.
IterableKinds == {"list", "generator"}

\* ---------------------------------------------------------------- helpers
RECURSIVE BitAnd(_, _)
\* Python's a & b on non-negative integers.
BitAnd(a, b) ==
    IF a = 0 \/ b = 0
    THEN 0
    ELSE (a % 2) * (b % 2) + 2 * BitAnd(a \div 2, b \div 2)

\* A slip: `if mask_value:` takes a mask_value of 0 for none.
NewMaskTruthy(img, mask_value, nodata) ==
    IF mask_value # None /\ TheValue(mask_value) # 0
    THEN [k \in DOMAIN img |-> BitAnd(img[k], TheValue(mask_value)) = TheValue(mask_value)]
    ELSE [k \in DOMAIN img |-> img[k] \notin nodata]

\* new_mask: `img & mask_value == mask_value` parses as
\* `(img & mask_value) == mask_value`; `img != ds.nodata` is elementwise, and
\* no pixel equals None when the raster declares no nodata value.
NewMask(img, mask_value, nodata) ==
    IF mask_value # None
    THEN [k \in DOMAIN img |-> BitAnd(img[k], TheValue(mask_value)) = TheValue(mask_value)]
    ELSE [k \in DOMAIN img |-> img[k] \notin nodata]

\* mask |= new_mask
OrMask(mask, new_mask) == [k \in DOMAIN mask |-> mask[k] \/ new_mask[k]]

\* A slip: the grid's mask is replaced by the new one instead of or-ed.
AccumulateMaskOverwrite(by_grid, grid, new_mask) ==
    [g \in DOMAIN by_grid \cup {grid} |->
        IF g = grid THEN new_mask ELSE by_grid[g]]

\* mask_by_grid after one more measurement on grid: mask_by_grid.get(grid) is
\* None for a new grid, and is or-ed in place otherwise.
AccumulateMask(by_grid, grid, new_mask) ==
    IF grid \in DOMAIN by_grid
    THEN [by_grid EXCEPT ![grid] = OrMask(by_grid[grid], new_mask)]
    ELSE [g \in DOMAIN by_grid \cup {grid} |->
            IF g = grid THEN new_mask ELSE by_grid[g]]

\* measurements_by_grid[grid].append(measurement) on a defaultdict(list): a
\* dict keeps its keys in insertion order.  Members are positions in the
\* measurement list.
AppendMeasurement(by_grid, grid, m) ==
    IF \E k \in DOMAIN by_grid : by_grid[k].grid = grid
    THEN [k \in DOMAIN by_grid |->
            IF by_grid[k].grid = grid
            THEN [by_grid[k] EXCEPT !.members = Append(@, m)]
            ELSE by_grid[k]]
    ELSE Append(by_grid, [grid |-> grid, members |-> <<m>>])

\* A slip: item goes before the elements of the same member count, which
\* reverses the order of ties.
InsertByFrequencyUnstable(sorted, item) ==
    LET n == Cardinality({k \in DOMAIN sorted :
                            Len(sorted[k].members) < Len(item.members)})
    IN  SubSeq(sorted, 1, n) \o <<item>> \o SubSeq(sorted, n + 1, Len(sorted))

\* One step of a stable insertion: item goes after every element whose member
\* count is not larger.
InsertByFrequency(sorted, item) ==
    LET n == Cardinality({k \in DOMAIN sorted :
                            Len(sorted[k].members) <= Len(item.members)})
    IN  SubSeq(sorted, 1, n) \o <<item>> \o SubSeq(sorted, n + 1, Len(sorted))

RECURSIVE SortedByFrequency(_)
\* sorted(measurements_by_grid.items(), key=lambda k: len(k[1])): ascending
\* and stable.
SortedByFrequency(items) ==
    IF items = <<>>
    THEN <<>>
    ELSE InsertByFrequency(SortedByFrequency(SubSeq(items, 1, Len(items) - 1)),
                           items[Len(items)])

RECURSIVE JoinNamesReversed(_, _)
\* A slip: the members are joined last to first.
JoinNamesReversed(ms, members) ==
    IF members = <<>>
    THEN <<>>
    ELSE JoinNamesReversed(ms, Tail(members)) \o ms[Head(members)].name

RECURSIVE JoinNamesByGrid(_, _)
\* A slip: the members' grid fields are joined, `m.grid for m in measurements`.
JoinNamesByGrid(ms, members) ==
    IF members = <<>>
    THEN <<>>
    ELSE ms[Head(members)].grid \o JoinNamesByGrid(ms, Tail(members))

RECURSIVE JoinNames(_, _)
\* "_".join(m.name for m in measurements), members being positions in ms.
JoinNames(ms, members) ==
    IF members = <<>>
    THEN <<>>
    ELSE ms[Head(members)].name \o JoinNames(ms, Tail(members))

\* name_grid's name: `name or "_".join(...)`; the empty string is falsy.
GridName(ms, members, name) ==
    IF name # None /\ TheValue(name) # <<>>
    THEN TheValue(name)
    ELSE JoinNames(ms, members)

\* The (name, grid) pairs in the order the list display of lines 379-383
\* evaluates them: the most frequent grid first, as "default".
NamedGrids(ms, by_frequency) ==
    LET n == Len(by_frequency)
    IN  <<[name |-> GridName(ms, by_frequency[n].members, Some(DEFAULT)),
           item |-> by_frequency[n]]>>
        \o [k \in 1..(n - 1) |->
              [name |-> GridName(ms, by_frequency[k].members, None),
               item |-> by_frequency[k]]]

\* dict(pairs): a later pair replaces an earlier one with the same key.
GridDict(named) ==
    [name \in {named[k].name : k \in DOMAIN named} |->
        LET last == CHOOSE k \in DOMAIN named :
                        /\ named[k].name = name
                        /\ \A j \in DOMAIN named : named[j].name = name => j <= k
        IN  named[last].item.grid]

\* name_grid's loop `m.grid = name`, for every named grid.
AssignGrids(ms, named) ==
    [k \in DOMAIN ms |->
        LET n == CHOOSE j \in DOMAIN named :
                    \E x \in DOMAIN named[j].item.members :
                        named[j].item.members[x] = k
        IN  [ms[k] EXCEPT !.grid = named[n].name]]

\* A slip: `if not len(ds.indexes)` lets every raster with a band through.
SomeBand(raster) == raster.count >= 1

\* Line 347: len(ds.indexes) == 1.
SingleBand(raster) == raster.count = 1

\* ---------------------------------------------------------------- geometry
\* A geometry is None (empty) or one axis-parallel rectangle, which is what
\* every step of lines 386-419 yields over the rasters of Files: the valid
\* cells of the one raster with two rows are all of its cells or none, and
\* they cover the cells of every other raster.  The operators below are
\* defined on that case only.
Box(xmin, ymin, xmax, ymax) ==
    [xmin |-> xmin, ymin |-> ymin, xmax |-> xmax, ymax |-> ymax]

Min(S) == CHOOSE x \in S : \A y \in S : x <= y

Max(S) == CHOOSE x \in S : \A y \in S : x >= y

\* The cells <<column, row>> a mask marks valid: rasterio.features.shapes
\* traces the regions of value 1 of a row-major array of the given shape.
ValidCells(mask, shape) ==
    {<<(x - 1) % shape[2], (x - 1) \div shape[2]>> :
        x \in {y \in DOMAIN mask : mask[y]}}

\* Lines 386-394: the shapes of every grid's mask, each in the pixel
\* coordinates of its own grid, merged by unary_union.
Shapes(by_grid) ==
    UNION {ValidCells(by_grid[g], g.shape) : g \in DOMAIN by_grid}

\* Line 397: the convex hull of a union of cells whose bounding box has its
\* corner cells in the union is that box.
ConvexHull(cells) ==
    IF cells = {}
    THEN None
    ELSE LET x0 == Min({c[1] : c \in cells})
             x1 == Max({c[1] : c \in cells})
             y0 == Min({c[2] : c \in cells})
             y1 == Max({c[2] : c \in cells})
         IN  CASE {<<x0, y0>>, <<x0, y1>>, <<x1, y0>>, <<x1, y1>>} \subseteq cells
                    -> Some(Box(x0, y0, x1 + 1, y1 + 1))

\* Line 400: buffer(distance, join_style=3): mitred corners, so a rectangle
\* grows by distance on every side.
Buffer(geom, distance) ==
    {Box(b.xmin - distance, b.ymin - distance,
         b.xmax + distance, b.ymax + distance) : b \in geom}

\* Line 403: simplify(tolerance) drops a vertex that is within tolerance of
\* the chord it is tested against; a rectangle keeps its corners when each is
\* farther than that from the diagonal: w * h > tolerance * sqrt(w^2 + h^2).
Simplify(geom, tolerance) ==
    {b \in geom :
        LET w == b.xmax - b.xmin
            h == b.ymax - b.ymin
        IN  CASE w * w * h * h > tolerance * tolerance * (w * w + h * h) -> TRUE}

\* A slip: shapely's box(minx, miny, maxx, maxy) given (rows, columns).
ImageBoxTransposed(shape) == Some(Box(0, 0, shape[1], shape[2]))

\* Line 406: box(0, 0, mask.shape[1], mask.shape[0]); shape is (rows, columns).
ImageBox(shape) == Some(Box(0, 0, shape[2], shape[1]))

\* Line 406: the intersection of two rectangles; rectangles that only touch
\* meet in a segment or a point, a rectangle of no width or height.
Intersection(geom, other) ==
    {Box(Max({p[1].xmin, p[2].xmin}), Max({p[1].ymin, p[2].ymin}),
         Min({p[1].xmax, p[2].xmax}), Min({p[1].ymax, p[2].ymax})) :
        p \in {q \in geom \X other :
                  /\ Max({q[1].xmin, q[2].xmin}) <= Min({q[1].xmax, q[2].xmax})
                  /\ Max({q[1].ymin, q[2].ymin}) <= Min({q[1].ymax, q[2].ymax})}}

\* A slip: the nine coefficients of the Affine passed as they come, where
\* shapely wants [a, b, d, e, xoff, yoff].
AffineTransformInOrder(geom, t) ==
    {LET xs == {t[1] * x + t[2] * y + t[5] : x \in {b.xmin, b.xmax},
                                             y \in {b.ymin, b.ymax}}
         ys == {t[3] * x + t[4] * y + t[6] : x \in {b.xmin, b.xmax},
                                             y \in {b.ymin, b.ymax}}
     IN  Box(Min(xs), Min(ys), Max(xs), Max(ys)) : b \in geom}

\* Lines 409-419: affine_transform with (a, b, d, e, xoff, yoff) of the
\* transform <<a, b, c, d, e, f, g, h, i>>: x' = a x + b y + c and
\* y' = d x + e y + f.  Without rotation (b = d = 0) a rectangle maps to the
\* rectangle of its mapped corners.
AffineTransform(geom, t) ==
    {LET xs == {t[1] * x + t[2] * y + t[3] : x \in {b.xmin, b.xmax},
                                             y \in {b.ymin, b.ymax}}
         ys == {t[4] * x + t[5] * y + t[6] : x \in {b.xmin, b.xmax},
                                             y \in {b.ymin, b.ymax}}
     IN  CASE t[2] = 0 /\ t[4] = 0 ->
                Box(Min(xs), Min(ys), Max(xs), Max(ys)) : b \in geom}

\* Lines 386-406: the footprint in pixel coordinates; mask, the mask last
\* accumulated, has the shape of the last raster.
PixelFootprint(by_grid, shape) ==
    Intersection(Simplify(Buffer(ConvexHull(Shapes(by_grid)), 1), 1),
                 ImageBox(shape))

\* A slip: ds.close() at the end of the body, which a raise skips.
CloseUnlessRaising(handles, k, raising) ==
    IF raising THEN handles ELSE handles \ {k}

\* Line 343: `with rasterio.open(...) as ds` closes ds when the body is left,
\* by its end or by an exception.
WithExit(handles, k, raising) == handles \ {k}

\* bool(measurements): a list is falsy when empty, a generator never is.
Truthy(kind, ms) == kind = "generator" \/ Len(ms) > 0

\* ---------------------------------------------------------------- paths
\* A str that the code compares or assembles is the sequence of its atoms,
\* substrings of which none begins another, so that one str starts with
\* another exactly when its atoms do: "/data/scene.tar" is
\* <<"/", "data", "/", "scene", ".tar">>.  A file name is one atom.
\* A Path is its components, each a str without "/", and whether it is
\* rooted.
Path(absolute, parts) == [absolute |-> absolute, parts |-> parts]

\* The working directory of the process.
Cwd == <<<<"work">>>>

\* Path.absolute(): a relative path is put under the working directory.
Absolute(path) ==
    IF path.absolute THEN path ELSE Path(TRUE, Cwd \o path.parts)

RECURSIVE JoinParts(_)
\* "/".join(parts).
JoinParts(parts) ==
    IF parts = <<>>
    THEN <<>>
    ELSE IF Len(parts) = 1
         THEN parts[1]
         ELSE parts[1] \o <<"/">> \o JoinParts(Tail(parts))

\* str(path).
Str(path) ==
    IF path.absolute
    THEN <<"/">> \o JoinParts(path.parts)
    ELSE JoinParts(path.parts)

RECURSIVE SplitOnSlash(_)
\* The components of a str, as Path(str) parses it: empty ones are dropped.
SplitOnSlash(s) ==
    IF s = <<>>
    THEN <<>>
    ELSE LET n == Min({k \in 1..Len(s) : s[k] = "/"} \cup {Len(s) + 1})
             head == SubSeq(s, 1, n - 1)
             rest == SplitOnSlash(SubSeq(s, n + 1, Len(s)))
         IN  IF head = <<>> THEN rest ELSE <<head>> \o rest

\* path / offset: an absolute offset replaces path.
JoinPath(path, offset) ==
    IF offset # <<>> /\ Head(offset) = "/"
    THEN Path(TRUE, SplitOnSlash(offset))
    ELSE Path(path.absolute, path.parts \o SplitOnSlash(offset))

\* The atoms that are file extensions.
Extensions == {".tar", ".gz", ".yaml"}

\* Path.suffixes: the extensions of the last component.
Suffixes(path) ==
    IF path.parts = <<>>
    THEN {}
    ELSE {a \in Range(Tail(path.parts[Len(path.parts)])) : a \in Extensions}

\* str.startswith.
StartsWith(s, prefix) ==
    Len(prefix) <= Len(s) /\ SubSeq(s, 1, Len(prefix)) = prefix

\* Line 318: ".tar" in dataset_path.suffixes.
IsTar(path) == ".tar" \in Suffixes(path)

\* Lines 310-321.
resolve_absolute_offset(dataset_path, offset, target_path) ==
    LET root == Absolute(dataset_path)
    IN  IF /\ target_path # None
           /\ StartsWith(Str(Absolute(TheValue(target_path))), Str(root))
        THEN offset
        ELSE IF IsTar(root)
             THEN <<"tar:">> \o Str(root) \o <<"!">> \o offset
             ELSE Str(JoinPath(root, offset))

\* The dataset path handed to valid_region: a directory.
DatasetPath == Path(TRUE, <<<<"data">>, <<"scene">>>>)

\* rasterio.open succeeds when the location names an existing raster.
CanOpen(location) ==
    \E f \in DOMAIN Files : location = Str(DatasetPath) \o <<"/", f>>

RasterAt(location) == Files[location[Len(location)]]

\* The arguments of resolve_absolute_offset: dataset paths that are
\* directories or archives, rooted or not; offsets with and without a
\* directory; and no target, or a metadata file inside the dataset, in a
\* sibling directory whose name continues the dataset's, next to the dataset
\* with its name continued, or elsewhere.
DatasetPaths ==
    {Path(a, <<parent, last>>) :
        a \in BOOLEAN,
        parent \in {<<"data">>, <<"data", ".tar">>},
        last \in {<<"scene">>, <<"scene", ".tar">>, <<"scene", ".tar", ".gz">>,
                  <<"scene", ".gz">>}}

OffsetStrs == {<<"bandA.tif">>, <<"band", "/", "bandA.tif">>}

Continued(path, atom) ==
    Path(path.absolute,
         [path.parts EXCEPT ![Len(path.parts)] = Append(@, atom)])

TargetsFor(dataset_path) ==
    {None} \cup
    {Some(Path(a, parts)) :
        a \in BOOLEAN,
        parts \in {dataset_path.parts \o <<<<"meta", ".yaml">>>>,
                   dataset_path.parts \o <<<<"sub">>, <<"meta", ".yaml">>>>,
                   Continued(dataset_path, "2").parts \o <<<<"meta", ".yaml">>>>,
                   Continued(dataset_path, ".yaml").parts,
                   <<<<"data">>, <<"target", ".yaml">>>>}}

ResolveInputs ==
    {[dataset_path |-> d, offset |-> o, target_path |-> t] :
        d \in DatasetPaths, o \in OffsetStrs,
        t \in UNION {TargetsFor(x) : x \in DatasetPaths}}

\* ---------------------------------------------------------------- properties
\* A property key is the sequence of its ":"-separated pieces:
\* "landsat:path" is <<"landsat", "path">>.  A dict is the sequence of its
\* items in insertion order, with pairwise different keys.  A value is a
\* scalar or a dict.
Scalar(v) == [kind |-> "scalar", value |-> v]

DictVal(items) == [kind |-> "dict", items |-> items]

\* key in d.
HasKey(items, key) == \E k \in DOMAIN items : items[k].key = key

\* d[key].
Lookup(items, key) ==
    items[CHOOSE k \in DOMAIN items : items[k].key = key].val

\* d[key] = val: a key already present keeps its place.
SetItem(items, key, val) ==
    IF HasKey(items, key)
    THEN [k \in DOMAIN items |->
            IF items[k].key = key THEN [key |-> key, val |-> val] ELSE items[k]]
    ELSE Append(items, [key |-> key, val |-> val])

RECURSIVE FirstLoop(_, _)
\* Lines 37-44 over the first n items of d: out, or the TypeError that
\* `out[section][sub_key] = val` raises when out[section] is not a dict.
FirstLoop(d, n) ==
    IF n = 0
    THEN [error |-> "none", items |-> <<>>]
    ELSE LET out == FirstLoop(d, n - 1)
             section == <<Head(d[n].key)>>
             remainder == Tail(d[n].key)
             current == IF HasKey(out.items, section)
                        THEN Lookup(out.items, section)
                        ELSE DictVal(<<>>)
         IN  IF out.error # "none"
             THEN out
             ELSE IF remainder # <<>>
                  THEN IF current.kind = "dict"
                       THEN [error |-> "none",
                             items |-> SetItem(out.items, section,
                                               DictVal(SetItem(current.items,
                                                               remainder,
                                                               d[n].val)))]
                       ELSE [error |-> "TypeError", items |-> <<>>]
                  ELSE [error |-> "none",
                        items |-> SetItem(out.items, section, d[n].val)]

RECURSIVE nest_properties(_)
\* Lines 37-50: the result dict, or the exception raised.
nest_properties(d) ==
    LET out == FirstLoop(d, Len(d))
        nested == [k \in DOMAIN out.items |->
                     IF out.items[k].val.kind = "dict"
                     THEN nest_properties(out.items[k].val.items)
                     ELSE [error |-> "none", items |-> <<>>]]
    IN  IF out.error # "none"
        THEN out
        ELSE IF \E k \in DOMAIN nested : nested[k].error # "none"
             THEN [error |-> "TypeError", items |-> <<>>]
             ELSE [error |-> "none",
                   items |-> [k \in DOMAIN out.items |->
                                IF out.items[k].val.kind = "dict"
                                THEN [key |-> out.items[k].key,
                                      val |-> DictVal(nested[k].items)]
                                ELSE out.items[k]]]

\* The longest property dict.
MaxProperties == 3

PropertyKeys ==
    {<<"clouds">>, <<"landsat">>, <<"landsat", "path">>, <<"landsat", "row">>,
     <<"landsat", "path", "x">>}

\* The property dicts: pairwise different keys in any order, the value of
\* an item being its position.
NestInputs ==
    UNION {{[k \in 1..n |-> [key |-> ks[k], val |-> Scalar(k)]] :
                ks \in {f \in [1..n -> PropertyKeys] :
                            \A j, k \in 1..n : j # k => f[j] # f[k]}} :
           n \in 0..MaxProperties}

\* ---------------------------------------------------------------- landsat
\* What `for field in fields` ranges over: the items of a tuple, or the
\* characters of a str.
TupleOf(items) == [kind |-> "tuple", items |-> items]

StrOf(chars) == [kind |-> "str", chars |-> chars]

Iterate(fields) ==
    IF fields.kind = "tuple" THEN fields.items ELSE fields.chars

\* Lines 22-39.  ("collection_category") is a str in parentheses, not a
\* tuple of one item.
_COPYABLE_MTL_FIELDS ==
    <<[section |-> "level1_processing_record",
       fields |-> TupleOf(<<"landsat_scene_id", "landsat_product_id",
                            "processing_software_version",
                            "ground_control_points_version",
                            "ground_control_points_model",
                            "geometric_rmse_model_x", "geometric_rmse_model_y",
                            "ground_control_points_verify",
                            "geometric_rmse_verify">>)],
      [section |-> "product_contents",
       fields |-> StrOf(<<"c", "o", "l", "l", "e", "c", "t", "i", "o", "n", "_",
                          "c", "a", "t", "e", "g", "o", "r", "y">>)],
      [section |-> "image_attributes",
       fields |-> TupleOf(<<"station_id", "wrs_path", "wrs_row">>)]>>

\* dict.get(key): None for a key that is missing.
Get(d, key) == IF key \in DOMAIN d THEN d[key] ELSE None

\* p.properties[f"landsat:{field}"] = value; a property name is the pair of
\* its namespace and its field.
SetProperty(properties, field, value) ==
    [k \in DOMAIN properties \cup {<<"landsat", field>>} |->
        IF k = <<"landsat", field>> THEN value ELSE properties[k]]

RECURSIVE CopyFields(_, _, _, _)
\* Lines 240-242 over the first n of fields.
CopyFields(properties, mtl_section, fields, n) ==
    IF n = 0
    THEN properties
    ELSE LET copied == CopyFields(properties, mtl_section, fields, n - 1)
             value == Get(mtl_section, fields[n])
         IN  IF value # None
             THEN SetProperty(copied, fields[n], value)
             ELSE copied

RECURSIVE CopySections(_, _, _)
\* Lines 238-242 over the first n sections of _COPYABLE_MTL_FIELDS.
CopySections(properties, mtl_doc, n) ==
    IF n = 0
    THEN properties
    ELSE LET copiable == _COPYABLE_MTL_FIELDS[n]
             fields == Iterate(copiable.fields)
         IN  CopyFields(CopySections(properties, mtl_doc, n - 1),
                        mtl_doc[copiable.section], fields, Len(fields))

\* Line 237: the one landsat property set before the loop.
PropertiesBeforeCopy(mtl_doc) ==
    [k \in {<<"landsat", "collection_number">>} |->
        mtl_doc["product_contents"]["collection_number"]]

\* Lines 237-244: the properties after the loop, and the KeyError of the
\* region code when a WRS property is not there.
copy_mtl_fields(mtl_doc) ==
    LET properties == CopySections(PropertiesBeforeCopy(mtl_doc), mtl_doc,
                                   Len(_COPYABLE_MTL_FIELDS))
    IN  [error |-> IF {<<"landsat", "wrs_path">>, <<"landsat", "wrs_row">>}
                          \subseteq DOMAIN properties
                   THEN "none"
                   ELSE "KeyError",
         properties |-> properties]

\* The keys an MTL document of the model may hold besides collection_number,
\* by section; "c" is a key that is one character long.
MtlKeys ==
    [section \in {"level1_processing_record", "product_contents",
                  "image_attributes"} |->
        CASE section = "level1_processing_record" -> {"landsat_scene_id"}
          [] section = "product_contents" -> {"collection_category", "c"}
          [] section = "image_attributes" -> {"wrs_path", "wrs_row"}]

\* The values of an MTL field: None, or a number, 0 included.
MtlValues == {None, Some(0), Some(1)}

MtlSections(section) ==
    UNION {[keys -> MtlValues] : keys \in SUBSET MtlKeys[section]}

\* The MTL documents: every section is there, with any of its keys, and
\* product_contents has a collection number.
MtlDocs ==
    {[section \in DOMAIN MtlKeys |->
        CASE section = "level1_processing_record" -> level1
          [] section = "product_contents" ->
                [k \in DOMAIN contents \cup {"collection_number"} |->
                    IF k = "collection_number" THEN Some(1) ELSE contents[k]]
          [] section = "image_attributes" -> image] :
     level1 \in MtlSections("level1_processing_record"),
     contents \in MtlSections("product_contents"),
     image \in MtlSections("image_attributes")}

\* ---------------------------------------------------------------- package
\* A file is its directory and its name, the name being the sequence of its
\* "."-separated pieces and a piece a sequence of atoms:
\* in/LT5.wagl.h5 is File("in", <<<<"L", "T5">>, <<"wagl">>, <<"h5">>>>).
File(dir, name) == [dir |-> dir, name |-> name]

\* Path.with_name.
WithName(file, name) == File(file.dir, name)

\* Path.with_suffix: the last piece is replaced when the name has a suffix.
WithSuffix(file, suffix) ==
    IF Len(file.name) > 1
    THEN File(file.dir, SubSeq(file.name, 1, Len(file.name) - 1) \o <<suffix>>)
    ELSE File(file.dir, file.name \o <<suffix>>)

\* Lines 455-460: wagl_hdf5.stem.split(".")[0], which has to start with "L".
_find_a_granule_name(wagl_hdf5) ==
    LET granule_name == Head(wagl_hdf5.name)
    IN  IF Head(granule_name) = "L"
        THEN [error |-> "none", value |-> granule_name]
        ELSE [error |-> "ValueError", value |-> <<>>]

\* The granule of the HDF5 file.
Granule == <<"L", "T5">>

WaglFiles ==
    {File("in", <<Granule, <<"wagl">>, <<"h5">>>>),
     File("in", <<<<"my-test-granule">>, <<"h5">>>>)}

GranuleNames == {None, Some(Granule), Some(<<"L", "C8">>)}

\* The files a caller passes instead of the ones package derives.
GivenFmaskImage == File("aux", <<<<"mask">>, <<"img">>>>)

GivenFmaskDoc == File("aux", <<<<"maskdoc">>, <<"yaml">>>>)

GivenGqaDoc == File("aux", <<<<"gqa">>, <<"yaml">>>>)

\* What may or may not be on disk: the three files derived from the granule,
\* the document derived from a given fmask image, and that image.
OptionalFiles ==
    {File("in", <<Granule, <<"fmask">>, <<"img">>>>),
     File("in", <<Granule, <<"fmask">>, <<"yaml">>>>),
     File("in", <<Granule, <<"gqa">>, <<"yaml">>>>),
     File("aux", <<<<"mask">>, <<"yaml">>>>),
     GivenFmaskImage}

Disks == {files \cup {GivenFmaskDoc, GivenGqaDoc} : files \in SUBSET OptionalFiles}

PackageArgs ==
    [wagl_hdf5 : WaglFiles,
     granule_name : GranuleNames,
     fmask_image : {None, Some(GivenFmaskImage)},
     fmask_doc : {None, Some(GivenFmaskDoc)},
     gqa_doc : {None, Some(GivenGqaDoc)},
     include_oa : BOOLEAN]

\* ---------------------------------------------------------------- state
VARIABLES
    measurements,           \* argument: the MeasurementDocs, as supplied
    measurements_kind,      \* argument: how the Iterable is passed
    mask_value,             \* argument
    pc,                     \* position in valid_region
    i,                      \* position of the for loop in measurements
    ds,                     \* the open raster handles, by measurement position
    opened,                 \* history: positions opened so far, in order
    read,                   \* history: positions whose band was read, in order
    transform,              \* local: transform of the last raster
    new_mask,               \* local: validity mask of the last band read
    mask,                   \* local: the mask last accumulated
    measurements_by_grid,   \* local
    mask_by_grid,           \* local
    grids_by_frequency,     \* local
    grids,                  \* the returned name -> GridDoc mapping
    error,                  \* the exception the call raised
    grid,                   \* local: the GridDoc of the last band read
    geom_px,                \* local: geom before the affine transform
    geom,                   \* the returned geometry
    given,                  \* history: measurements as the call received them
    run,                    \* history: which call on these measurements this is
    first,                  \* history: what the first call returned
    fn,                     \* the pure function applied, if one is
    fn_args,                \* its arguments
    fn_result,              \* its result
    package_args,           \* package: the arguments
    disk,                   \* package: the files that exist
    package_pc,             \* package: position in the function
    package_locals,         \* package: the four names it rebinds
    effects,                \* package: what it has done outside itself
    package_error           \* package: the exception raised

vars == <<measurements, measurements_kind, mask_value, pc, i, ds, opened, read,
          transform, new_mask, mask, measurements_by_grid, mask_by_grid,
          grids_by_frequency, grids, error, grid, geom_px, geom, given, run,
          first, fn, fn_args, fn_result, package_args, disk, package_pc,
          package_locals, effects, package_error>>

\* What a step of valid_region never touches.
history_vars == <<given, run, first>>

pure_vars == <<fn, fn_args, fn_result>>

package_vars ==
    <<package_args, disk, package_pc, package_locals, effects, package_error>>

NoError == "none"

\* An unassigned local and the empty dict: the function with no argument.
Unset == [x \in {} |-> x]

InitLocals ==
    /\ pc = "call"
    /\ i = 0
    /\ ds = {}
    /\ opened = <<>>
    /\ read = <<>>
    /\ transform = Unset
    /\ new_mask = Unset
    /\ mask = Unset
    /\ measurements_by_grid = <<>>
    /\ mask_by_grid = Unset
    /\ grids_by_frequency = <<>>
    /\ grids = Unset
    /\ error = NoError
    /\ grid = Unset
    /\ geom_px = None
    /\ geom = None

\* No pure function is applied in a behaviour of valid_region.
NoFunction ==
    /\ fn = "none"
    /\ fn_args = Unset
    /\ fn_result = None

\* package is not called.
NoPackage ==
    /\ package_args = Unset
    /\ disk = {}
    /\ package_pc = "idle"
    /\ package_locals = Unset
    /\ effects = <<>>
    /\ package_error = NoError

Init ==
    /\ measurements_kind \in IterableKinds
    /\ \/ measurements \in NamedInputs /\ mask_value = None
       \/ measurements \in RasterInputs /\ mask_value \in MaskValues
    /\ InitLocals
    /\ given = measurements
    /\ run = 1
    /\ first = Unset
    /\ NoFunction
    /\ NoPackage

Raise(e) ==
    /\ pc' = "raised"
    /\ error' = e

\* ---------------------------------------------------------------- actions
\* Lines 333-339: the emptiness test and the two empty dicts.
Call ==
    /\ pc = "call"
    /\ IF ~Truthy(measurements_kind, measurements)
       THEN /\ Raise("ValueError")
            /\ i' = i
       ELSE /\ pc' = "loop"
            /\ i' = 1
            /\ error' = error
    /\ UNCHANGED <<measurements, measurements_kind, mask_value, ds, opened, read,
                   transform, new_mask, mask, measurements_by_grid, mask_by_grid,
                   grids_by_frequency, grids, grid, geom_px, geom,
                   history_vars, pure_vars,
                   package_vars>>

\* A slip: a raster that cannot be opened is skipped and the loop goes on.
OpenOrSkip ==
    /\ pc = "loop"
    /\ i <= Len(measurements)
    /\ LET measurement_path ==
               resolve_absolute_offset(DatasetPath, <<measurements[i].path>>,
                                       None)
       IN  IF CanOpen(measurement_path)
           THEN /\ ds' = ds \cup {i}
                /\ opened' = Append(opened, i)
                /\ pc' = "opened"
                /\ i' = i
           ELSE /\ i' = i + 1
                /\ UNCHANGED <<ds, opened, pc>>
    /\ UNCHANGED <<measurements, measurements_kind, mask_value, read, error,
                   transform, new_mask, mask, measurements_by_grid, mask_by_grid,
                   grids_by_frequency, grids, grid, geom_px, geom,
                   history_vars, pure_vars,
                   package_vars>>

\* Lines 341-343: the next measurement's location is resolved and opened.
Open ==
    /\ pc = "loop"
    /\ i <= Len(measurements)
    /\ LET measurement_path ==
               resolve_absolute_offset(DatasetPath, <<measurements[i].path>>,
                                       None)
       IN  IF CanOpen(measurement_path)
           THEN /\ ds' = ds \cup {i}
                /\ opened' = Append(opened, i)
                /\ pc' = "opened"
                /\ error' = error
           ELSE /\ Raise("RasterioIOError")
                /\ UNCHANGED <<ds, opened>>
    /\ UNCHANGED <<measurements, measurements_kind, mask_value, i, read,
                   transform, new_mask, mask, measurements_by_grid, mask_by_grid,
                   grids_by_frequency, grids, grid, geom_px, geom,
                   history_vars, pure_vars,
                   package_vars>>

\* A slip: the measurement's grid field is written inside the loop, as soon
\* as its band is read.
ReadBandEager ==
    /\ pc = "opened"
    /\ LET raster == RasterAt(resolve_absolute_offset(DatasetPath,
                                                      <<measurements[i].path>>,
                                                      None))
           raster_grid == GridDoc(raster.shape, raster.transform)
           band_mask == NewMask(raster.img, mask_value, raster.nodata)
           masks == AccumulateMask(mask_by_grid, raster_grid, band_mask)
       IN  /\ transform' = raster.transform
           /\ ds' = WithExit(ds, i, ~SingleBand(raster))
           /\ IF ~SingleBand(raster)
              THEN /\ Raise("NotImplementedError")
                   /\ UNCHANGED <<i, read, new_mask, mask, measurements_by_grid,
                                  mask_by_grid, grid, measurements>>
              ELSE /\ read' = Append(read, i)
                   /\ grid' = raster_grid
                   /\ measurements' =
                          [measurements EXCEPT ![i].grid = measurements[i].name]
                   /\ measurements_by_grid' =
                          AppendMeasurement(measurements_by_grid, raster_grid, i)
                   /\ new_mask' = band_mask
                   /\ mask_by_grid' = masks
                   /\ mask' = masks[raster_grid]
                   /\ i' = i + 1
                   /\ pc' = "loop"
                   /\ error' = error
    /\ UNCHANGED <<measurements_kind, mask_value, opened,
                   grids_by_frequency, grids, geom_px, geom, history_vars,
                   pure_vars, package_vars>>

\* Lines 344-365: the body of the with block; the handle is closed on the
\* way out, whether the body raises or not.
ReadBand ==
    /\ pc = "opened"
    /\ LET raster == RasterAt(resolve_absolute_offset(DatasetPath,
                                                      <<measurements[i].path>>,
                                                      None))
           raster_grid == GridDoc(raster.shape, raster.transform)
           band_mask == NewMask(raster.img, mask_value, raster.nodata)
           masks == AccumulateMask(mask_by_grid, raster_grid, band_mask)
       IN  /\ transform' = raster.transform
           /\ ds' = WithExit(ds, i, ~SingleBand(raster))
           /\ IF ~SingleBand(raster)
              THEN /\ Raise("NotImplementedError")
                   /\ UNCHANGED <<i, read, new_mask, mask, measurements_by_grid,
                                  mask_by_grid, grid>>
              ELSE /\ read' = Append(read, i)
                   /\ grid' = raster_grid
                   /\ measurements_by_grid' =
                          AppendMeasurement(measurements_by_grid, raster_grid, i)
                   /\ new_mask' = band_mask
                   /\ mask_by_grid' = masks
                   /\ mask' = masks[raster_grid]
                   /\ i' = i + 1
                   /\ pc' = "loop"
                   /\ error' = error
    /\ UNCHANGED <<measurements, measurements_kind, mask_value, opened,
                   grids_by_frequency, grids, geom_px, geom, history_vars,
                   pure_vars, package_vars>>

\* Lines 367-384: the grids are sorted by frequency and named, every
\* measurement gets its grid's name, and the pairs become a dict.
\* grids_by_frequency[-1] raises IndexError when there is no grid.
NameGrids ==
    /\ pc = "loop"
    /\ i > Len(measurements)
    /\ LET by_frequency == SortedByFrequency(measurements_by_grid)
           named == NamedGrids(measurements, by_frequency)
       IN  /\ grids_by_frequency' = by_frequency
           /\ IF by_frequency = <<>>
              THEN /\ Raise("IndexError")
                   /\ UNCHANGED <<measurements, grids>>
              ELSE /\ measurements' = AssignGrids(measurements, named)
                   /\ grids' = GridDict(named)
                   /\ pc' = "named"
                   /\ error' = error
    /\ UNCHANGED <<measurements_kind, mask_value, i, ds, opened, read, transform,
                   new_mask, mask, measurements_by_grid, mask_by_grid, grid,
                   geom_px, geom, history_vars, pure_vars,
                   package_vars>>

\* Lines 386-421: the footprint is derived from the masks of every grid,
\* clipped to the shape of mask and mapped by transform, which are the last
\* loop iteration's; the call returns it with grids.
Return ==
    /\ pc = "named"
    /\ geom_px' = PixelFootprint(mask_by_grid, grid.shape)
    /\ geom' = AffineTransform(geom_px', transform)
    /\ pc' = "returned"
    /\ UNCHANGED <<measurements, measurements_kind, mask_value, i, ds, opened,
                   read, transform, new_mask, mask, measurements_by_grid,
                   mask_by_grid, grids_by_frequency, grids, error, grid,
                   history_vars, pure_vars,
                   package_vars>>

Next ==
    \/ Call
    \/ Open
    \/ ReadBand
    \/ NameGrids
    \/ Return

Spec == Init /\ [][Next]_vars

\* valid_region is called a second time with the same MeasurementDoc objects,
\* as the first call left them, the same path and mask_value, and the same
\* files.  What the first call returned is kept for comparison.
CallAgain ==
    /\ pc = "returned"
    /\ run = 1
    /\ run' = 2
    /\ first' = [grids |-> grids, geom |-> geom, measurements |-> measurements]
    /\ given' = measurements
    /\ pc' = "call"
    /\ i' = 0
    /\ ds' = {}
    /\ opened' = <<>>
    /\ read' = <<>>
    /\ transform' = Unset
    /\ new_mask' = Unset
    /\ mask' = Unset
    /\ measurements_by_grid' = <<>>
    /\ mask_by_grid' = Unset
    /\ grids_by_frequency' = <<>>
    /\ grids' = Unset
    /\ error' = NoError
    /\ grid' = Unset
    /\ geom_px' = None
    /\ geom' = None
    /\ UNCHANGED <<measurements, measurements_kind, mask_value, pure_vars,
                   package_vars>>

NextTwice ==
    \/ Call
    \/ Open
    \/ ReadBand
    \/ NameGrids
    \/ Return
    \/ CallAgain

SpecTwice == Init /\ [][NextTwice]_vars

\* ---------------------------------------------------------------- functions
\* The state of valid_region, which the application of a function on its
\* own leaves alone.
valid_region_vars ==
    <<measurements, measurements_kind, mask_value, pc, i, ds, opened, read,
      transform, new_mask, mask, measurements_by_grid, mask_by_grid,
      grids_by_frequency, grids, error, grid, geom_px, geom, history_vars>>

\* No call of valid_region is under way.
NoCall ==
    /\ measurements = <<>>
    /\ measurements_kind = "list"
    /\ mask_value = None
    /\ InitLocals
    /\ given = <<>>
    /\ run = 1
    /\ first = Unset

InitResolve ==
    /\ NoCall
    /\ fn = "resolve_absolute_offset"
    /\ fn_args \in ResolveInputs
    /\ fn_result = None
    /\ NoPackage

\* resolve_absolute_offset(dataset_path, offset, target_path) is applied.
Resolve ==
    /\ fn = "resolve_absolute_offset"
    /\ fn_result = None
    /\ fn_result' = Some(resolve_absolute_offset(fn_args.dataset_path,
                                                 fn_args.offset,
                                                 fn_args.target_path))
    /\ UNCHANGED <<valid_region_vars, fn, fn_args, package_vars>>

NextResolve == Resolve

SpecResolve == InitResolve /\ [][NextResolve]_vars

InitNest ==
    /\ NoCall
    /\ fn = "nest_properties"
    /\ fn_args \in NestInputs
    /\ fn_result = None
    /\ NoPackage

\* nest_properties(d) is applied, as StacPropertyView.nested does.
Nest ==
    /\ fn = "nest_properties"
    /\ fn_result = None
    /\ fn_result' = Some(nest_properties(fn_args))
    /\ UNCHANGED <<valid_region_vars, fn, fn_args, package_vars>>

NextNest == Nest

SpecNest == InitNest /\ [][NextNest]_vars

InitCopy ==
    /\ NoCall
    /\ fn = "copy_mtl_fields"
    /\ fn_args \in MtlDocs
    /\ fn_result = None
    /\ NoPackage

\* prepare_and_write reaches line 237 with the MTL document and runs to
\* line 244.
Copy ==
    /\ fn = "copy_mtl_fields"
    /\ fn_result = None
    /\ fn_result' = Some(copy_mtl_fields(fn_args))
    /\ UNCHANGED <<valid_region_vars, fn, fn_args, package_vars>>

NextCopy == Copy

SpecCopy == InitCopy /\ [][NextCopy]_vars

\* ---------------------------------------------------------------- package
InitPackage ==
    /\ NoCall
    /\ NoFunction
    /\ package_args \in PackageArgs
    /\ disk \in Disks
    /\ package_pc = "granule_name"
    /\ package_locals = [granule_name |-> package_args.granule_name,
                         fmask_image |-> package_args.fmask_image,
                         fmask_doc |-> package_args.fmask_doc,
                         gqa_doc |-> package_args.gqa_doc]
    /\ effects = <<>>
    /\ package_error = NoError

PackageRaise(e) ==
    /\ package_pc' = "raised"
    /\ package_error' = e

\* Lines 357-358.
FindGranuleName ==
    /\ package_pc = "granule_name"
    /\ IF package_locals.granule_name # None
       THEN /\ package_pc' = "fmask_image"
            /\ UNCHANGED <<package_locals, package_error>>
       ELSE LET found == _find_a_granule_name(package_args.wagl_hdf5)
            IN  IF found.error # "none"
                THEN /\ PackageRaise(found.error)
                     /\ UNCHANGED package_locals
                ELSE /\ package_locals' =
                            [package_locals EXCEPT
                                !.granule_name = Some(found.value)]
                     /\ package_pc' = "fmask_image"
                     /\ UNCHANGED package_error
    /\ UNCHANGED <<package_args, disk, effects, valid_region_vars, pure_vars>>

\* Lines 360-363.
CheckFmaskImage ==
    /\ package_pc = "fmask_image"
    /\ IF package_locals.fmask_image # None
       THEN /\ package_pc' = "fmask_doc"
            /\ UNCHANGED <<package_locals, package_error>>
       ELSE LET fmask_image ==
                    WithName(package_args.wagl_hdf5,
                             <<TheValue(package_locals.granule_name),
                               <<"fmask">>, <<"img">>>>)
            IN  /\ package_locals' =
                       [package_locals EXCEPT !.fmask_image = Some(fmask_image)]
                /\ IF fmask_image \notin disk
                   THEN PackageRaise("ValueError")
                   ELSE /\ package_pc' = "fmask_doc"
                        /\ UNCHANGED package_error
    /\ UNCHANGED <<package_args, disk, effects, valid_region_vars, pure_vars>>

\* Lines 365-368: the file tested is fmask_image.
CheckFmaskDoc ==
    /\ package_pc = "fmask_doc"
    /\ IF package_locals.fmask_doc # None
       THEN /\ package_pc' = "gqa_doc"
            /\ UNCHANGED <<package_locals, package_error>>
       ELSE LET fmask_doc ==
                    WithSuffix(TheValue(package_locals.fmask_image), <<"yaml">>)
            IN  /\ package_locals' =
                       [package_locals EXCEPT !.fmask_doc = Some(fmask_doc)]
                /\ IF TheValue(package_locals.fmask_image) \notin disk
                   THEN PackageRaise("ValueError")
                   ELSE /\ package_pc' = "gqa_doc"
                        /\ UNCHANGED package_error
    /\ UNCHANGED <<package_args, disk, effects, valid_region_vars, pure_vars>>

\* Lines 370-373.
CheckGqaDoc ==
    /\ package_pc = "gqa_doc"
    /\ IF package_locals.gqa_doc # None
       THEN /\ package_pc' = "level1"
            /\ UNCHANGED <<package_locals, package_error>>
       ELSE LET gqa_doc ==
                    WithName(package_args.wagl_hdf5,
                             <<TheValue(package_locals.granule_name),
                               <<"gqa">>, <<"yaml">>>>)
            IN  /\ package_locals' =
                       [package_locals EXCEPT !.gqa_doc = Some(gqa_doc)]
                /\ IF gqa_doc \notin disk
                   THEN PackageRaise("ValueError")
                   ELSE /\ package_pc' = "level1"
                        /\ UNCHANGED package_error
    /\ UNCHANGED <<package_args, disk, effects, valid_region_vars, pure_vars>>

\* Line 375: the level-1 document is read.
ReadLevel1 ==
    /\ package_pc = "level1"
    /\ effects' = Append(effects, "level1_read")
    /\ package_pc' = "hdf5"
    /\ UNCHANGED <<package_args, disk, package_locals, package_error,
                   valid_region_vars, pure_vars>>

\* Lines 383-388: the HDF5 file is opened; it holds the one granule, and
\* the with block closes it when the test raises.
OpenHdf5 ==
    /\ package_pc = "hdf5"
    /\ IF TheValue(package_locals.granule_name) # Granule
       THEN /\ effects' = effects \o <<"hdf5_opened", "hdf5_closed">>
            /\ PackageRaise("ValueError")
       ELSE /\ effects' = Append(effects, "hdf5_opened")
            /\ package_pc' = "output"
            /\ UNCHANGED package_error
    /\ UNCHANGED <<package_args, disk, package_locals, valid_region_vars,
                   pure_vars>>

\* Lines 390-392: the parent of the output path is made and the assembler
\* is entered.
CreateOutput ==
    /\ package_pc = "output"
    /\ effects' = Append(effects, "output_created")
    /\ package_pc' = "dataset"
    /\ UNCHANGED <<package_args, disk, package_locals, package_error,
                   valid_region_vars, pure_vars>>

\* Lines 393-440: the products are unpacked; with include_oa the fmask image
\* is written as a measurement and the fmask document is opened; the gqa
\* document is opened; the dataset is finished.  Both with blocks end.
WriteDataset ==
    /\ package_pc = "dataset"
    /\ LET failure ==
               IF /\ package_args.include_oa
                  /\ TheValue(package_locals.fmask_image) \notin disk
               THEN "RasterioIOError"
               ELSE IF \/ /\ package_args.include_oa
                          /\ TheValue(package_locals.fmask_doc) \notin disk
                       \/ TheValue(package_locals.gqa_doc) \notin disk
                    THEN "FileNotFoundError"
                    ELSE NoError
       IN  IF failure # NoError
           THEN /\ PackageRaise(failure)
                /\ effects' = Append(effects, "hdf5_closed")
           ELSE /\ package_pc' = "returned"
                /\ effects' = effects \o <<"dataset_written", "hdf5_closed">>
                /\ UNCHANGED package_error
    /\ UNCHANGED <<package_args, disk, package_locals, valid_region_vars,
                   pure_vars>>

NextPackage ==
    \/ FindGranuleName
    \/ CheckFmaskImage
    \/ CheckFmaskDoc
    \/ CheckGqaDoc
    \/ ReadLevel1
    \/ OpenHdf5
    \/ CreateOutput
    \/ WriteDataset

SpecPackage == InitPackage /\ [][NextPackage]_vars


\* ---------------------------------------------------------------- reference
\* What the claims speak of, read off the arguments and the files alone.
Positions == DOMAIN measurements

InputRaster(k) == Files[measurements[k].path]

InputGrid(k) == GridDoc(InputRaster(k).shape, InputRaster(k).transform)

DiscoveredGrids == {InputGrid(k) : k \in Positions}

MembersOf(g) == {k \in Positions : InputGrid(k) = g}

Bit(v, b) == (v \div (2 ^ b)) % 2

\* A pixel's validity as the specification words it.
ValidPixel(p, nodata) ==
    IF mask_value # None
    THEN \A b \in 0..(BitWidth - 1) :
            Bit(TheValue(mask_value), b) = 1 => Bit(p, b) = 1
    ELSE nodata = None \/ p # TheValue(nodata)

ValidityOf(k) ==
    [x \in DOMAIN InputRaster(k).img |->
        ValidPixel(InputRaster(k).img[x], InputRaster(k).nodata)]

RECURSIVE NamesInOrder(_, _)
\* The names of the first n supplied measurements that lie on g, joined.
NamesInOrder(g, n) ==
    IF n = 0
    THEN <<>>
    ELSE NamesInOrder(g, n - 1)
         \o (IF InputGrid(n) = g THEN measurements[n].name ELSE <<>>)

\* ---------------------------------------------------------------- claims
\* C1: when one grid has strictly more member measurements than every other
\* grid, the returned mapping stores that grid under "default", whatever the
\* order of the measurements.
C1_MostFrequentIsDefault ==
    pc = "returned" =>
        \A g \in DiscoveredGrids :
            (\A h \in DiscoveredGrids \ {g} :
                Cardinality(MembersOf(g)) > Cardinality(MembersOf(h)))
            => DEFAULT \in DOMAIN grids /\ grids[DEFAULT] = g

\* C2: the returned mapping has exactly one entry per discovered grid, one of
\* them named "default", no two grids under one name; with a single grid it
\* is exactly {"default": that grid}.
C2_OneEntryPerGrid ==
    pc = "returned" =>
        /\ DEFAULT \in DOMAIN grids
        /\ Cardinality(DOMAIN grids) = Cardinality(DiscoveredGrids)
        /\ {grids[n] : n \in DOMAIN grids} = DiscoveredGrids
        /\ \A g \in DiscoveredGrids :
               DiscoveredGrids = {g} => grids = [n \in {DEFAULT} |-> g]

\* C3: every grid other than the default one (the last of grids_by_frequency)
\* is named by its members' names joined with "_" in supplied order: that
\* name is a key of the mapping and the grid field of each of its members.
C3_OtherGridsNamedByJoin ==
    pc \in {"named", "returned"} =>
        \A g \in DiscoveredGrids :
            g # grids_by_frequency[Len(grids_by_frequency)].grid =>
                LET joined == NamesInOrder(g, Len(measurements))
                IN  /\ joined \in DOMAIN grids
                    /\ \A k \in MembersOf(g) : measurements[k].grid = joined

\* C3's case: a grid that is not the default one has two members of
\* different names, the second supplied first in the alphabet's order.
C3_Witness ==
    /\ pc = "returned"
    /\ \E k \in Positions :
          /\ measurements[k].grid = <<"b", "a">>
          /\ InputGrid(k) # grids_by_frequency[Len(grids_by_frequency)].grid

\* C4: after a successful call every measurement's grid field is a key of
\* the returned mapping, and the GridDoc under it is its own raster's grid.
C4_GridFieldNamesOwnGrid ==
    pc = "returned" =>
        \A k \in Positions :
            /\ measurements[k].grid \in DOMAIN grids
            /\ grids[measurements[k].grid] = InputGrid(k)

\* C5: the validity mask of the band last read marks pixel p valid iff
\* (p & mask_value) == mask_value when a mask_value is supplied (0 included),
\* and iff p differs from the raster's nodata otherwise; mask_value 1 over
\* the pixels [0, 1, 2, 3] gives [False, True, False, True].
C5_PixelValidity ==
    read # <<>> =>
        LET k == read[Len(read)]
        IN  /\ new_mask = ValidityOf(k)
            /\ (mask_value = Some(1) /\ InputRaster(k).img = <<0, 1, 2, 3>>)
                   => new_mask = <<FALSE, TRUE, FALSE, TRUE>>

\* C5's case: the band [0, 1, 2, 3] has been read under mask_value 1.
C5_Witness ==
    /\ read # <<>>
    /\ mask_value = Some(1)
    /\ measurements[read[Len(read)]].path = "qa.tif"
    /\ new_mask = <<FALSE, TRUE, FALSE, TRUE>>

\* C6: the mask held for each grid is the pixel-wise OR of the validity
\* masks of exactly the measurements read on that grid, in whatever order
\* they were supplied; in particular after the read loop.
C6_MaskIsOrOfMembers ==
    /\ DOMAIN mask_by_grid = {InputGrid(k) : k \in Range(read)}
    /\ \A g \in DOMAIN mask_by_grid :
           mask_by_grid[g] =
               [x \in 1..(g.shape[1] * g.shape[2]) |->
                   \E k \in Range(read) : InputGrid(k) = g /\ ValidityOf(k)[x]]

\* C6's case: the loop is over, two grids were found, and the mask of one of
\* them is valid everywhere though no band on it is.
C6_Witness ==
    /\ pc = "returned"
    /\ Cardinality(DOMAIN mask_by_grid) = 2
    /\ \E g \in DOMAIN mask_by_grid :
          /\ \A x \in DOMAIN mask_by_grid[g] : mask_by_grid[g][x]
          /\ \A k \in MembersOf(g) : \E x \in DOMAIN ValidityOf(k) : ~ValidityOf(k)[x]

\* C7: a call whose measurements yield nothing fails with ValueError and
\* opens no raster.
C7_EmptyRaisesValueError ==
    (Len(measurements) = 0 /\ pc # "call") =>
        pc = "raised" /\ error = "ValueError" /\ opened = <<>>

\* C8: a raster with more than one band makes the call fail with
\* NotImplementedError when it is reached: its pixels are never read and its
\* measurement is in no grid group.
C8_MultiBandRejected ==
    \A k \in Range(opened) :
        InputRaster(k).count # 1 =>
            /\ k \notin Range(read)
            /\ \A n \in DOMAIN measurements_by_grid :
                   k \notin Range(measurements_by_grid[n].members)
            /\ k \notin ds => pc = "raised" /\ error = "NotImplementedError"

\* C8's case: a multi-band raster was reached after a band had been read.
C8_Witness ==
    /\ error = "NotImplementedError"
    /\ read # <<>>
    /\ InputRaster(opened[Len(opened)]).count = 3

\* C9: with no mask_value, a raster that declares no nodata value makes the
\* call fail instead of returning.
C9_MissingNodataFails ==
    (mask_value = None /\ \E k \in Range(read) : InputRaster(k).nodata = None)
        => pc # "returned"

\* Whether the k-th measurement cannot be processed, and the error it gives.
Unreadable(k) ==
    measurements[k].path \notin DOMAIN Files \/ InputRaster(k).count # 1

ErrorOf(k) ==
    IF measurements[k].path \notin DOMAIN Files
    THEN "RasterioIOError"
    ELSE "NotImplementedError"

\* C10: once the processing of the i-th measurement has failed, the call has
\* ended with that error: no later measurement is opened, and no grid mapping
\* is returned.
C10_FailureAborts ==
    \A k \in Positions :
        (Unreadable(k) /\ (k < i \/ (k = i /\ pc \notin {"loop", "opened"}))) =>
            /\ pc = "raised"
            /\ i = k
            /\ error = ErrorOf(k)
            /\ \A j \in Range(opened) : j <= k
            /\ grids = Unset

\* C10's case: the second measurement failed, with a third one behind it.
C10_Witness ==
    /\ pc = "raised"
    /\ i = 2
    /\ Len(measurements) = 3
    /\ Unreadable(2)

\* C11: at most one raster handle is open at any point of a call, the handle
\* of a measurement is closed before the next one is processed, and none is
\* open once the call has returned or raised.
C11_HandlesScoped ==
    /\ Cardinality(ds) <= 1
    /\ pc = "opened" => ds = {i}
    /\ pc # "opened" => ds = {}

\* C11's case: the body of the with block raised on the second raster opened.
C11_Witness ==
    /\ pc = "raised"
    /\ error = "NotImplementedError"
    /\ Len(opened) = 2
    /\ ds = {}

\* The valid pixels of the k-th measurement, as cells <<column, row>> of its
\* own raster.
ValidCellsOf(k) ==
    LET valid == ValidityOf(k)
        columns == InputRaster(k).shape[2]
    IN  {<<(x - 1) % columns, (x - 1) \div columns>> :
            x \in {y \in DOMAIN valid : valid[y]}}

AllValidCells == UNION {ValidCellsOf(k) : k \in Positions}

Area(region) ==
    IF region = None
    THEN 0
    ELSE (TheValue(region).xmax - TheValue(region).xmin)
         * (TheValue(region).ymax - TheValue(region).ymin)

ClippedTo(r) ==
    LET cells == AllValidCells
        x0 == Min({c[1] : c \in cells}) - 1
        x1 == Max({c[1] : c \in cells}) + 2
        y0 == Min({c[2] : c \in cells}) - 1
        y1 == Max({c[2] : c \in cells}) + 2
        cx0 == IF x0 < 0 THEN 0 ELSE x0
        cy0 == IF y0 < 0 THEN 0 ELSE y0
        cx1 == IF x1 > r.shape[2] THEN r.shape[2] ELSE x1
        cy1 == IF y1 > r.shape[1] THEN r.shape[1] ELSE y1
    IN  IF cells = {} \/ cx0 > cx1 \/ cy0 > cy1
        THEN {}
        ELSE {[xmin |-> cx0, ymin |-> cy0, xmax |-> cx1, ymax |-> cy1]}

\* x' = a x + xoff and y' = e y + yoff, for a > 0 > e as in every transform
\* of Files.
MappedBy(region, r) ==
    {[xmin |-> r.transform[1] * b.xmin + r.transform[3],
      xmax |-> r.transform[1] * b.xmax + r.transform[3],
      ymin |-> r.transform[5] * b.ymax + r.transform[6],
      ymax |-> r.transform[5] * b.ymin + r.transform[6]] : b \in region}

FootprintBy(r) == MappedBy(ClippedTo(r), r)

LastRaster == InputRaster(Len(measurements))

DefaultRaster ==
    InputRaster(CHOOSE k \in Positions :
        InputGrid(k) = grids_by_frequency[Len(grids_by_frequency)].grid)

\* C17: the box the footprint is clipped to and the transform that maps it
\* to CRS coordinates are the shape and the transform of the raster of the
\* last measurement supplied, whichever grid it lies on.
C17_LastRasterIsReference ==
    pc = "returned" =>
        LET clipped == ClippedTo(LastRaster)
        IN  /\ geom_px = clipped
            /\ geom = MappedBy(clipped, LastRaster)

\* C17's case: the last measurement is not on the default grid, and the
\* footprint is not the one the default grid's raster would give, which is
\* what the same measurements give when one of the default grid comes last.
C17_Witness ==
    /\ pc = "returned"
    /\ InputGrid(Len(measurements))
           # grids_by_frequency[Len(grids_by_frequency)].grid
    /\ geom = FootprintBy(LastRaster)
    /\ geom # FootprintBy(DefaultRaster)

\* C20: the returned footprint covers every valid pixel of every grid: the
\* pixel's cell, mapped to CRS coordinates by the transform of its own
\* raster, lies inside the returned geometry.
C20_FootprintCoversValidData ==
    pc = "returned" =>
        \A k \in Positions : \A c \in ValidCellsOf(k) :
            \E b \in geom :
                \A p \in MappedBy({[xmin |-> c[1], ymin |-> c[2],
                                    xmax |-> c[1] + 1, ymax |-> c[2] + 1]},
                                  InputRaster(k)) :
                    /\ b.xmin <= p.xmin /\ p.xmax <= b.xmax
                    /\ b.ymin <= p.ymin /\ p.ymax <= b.ymax

\* The position of the first supplied measurement that lies on g.
FirstOf(g) == Min(MembersOf(g))

\* The grids with the largest member count.
TiedForMost ==
    {g \in DiscoveredGrids :
        \A h \in DiscoveredGrids :
            Cardinality(MembersOf(h)) <= Cardinality(MembersOf(g))}

\* C18: when several grids tie for the largest member count, the one whose
\* first measurement comes latest in the supplied order is the one named
\* "default" (it is the last of grids_by_frequency and its members carry
\* "default"), and every other tied grid is named by its members' joined
\* names.
C18_LatestTiedGridIsDefault ==
    pc \in {"named", "returned"} /\ Cardinality(TiedForMost) > 1 =>
        LET tied == TiedForMost
        IN
        \A g \in tied :
            IF \A h \in tied : FirstOf(h) <= FirstOf(g)
            THEN /\ grids_by_frequency[Len(grids_by_frequency)].grid = g
                 /\ \A k \in MembersOf(g) : measurements[k].grid = DEFAULT
                 /\ DEFAULT \in DOMAIN grids
            ELSE LET joined == NamesInOrder(g, Len(measurements))
                 IN  /\ joined \in DOMAIN grids
                     /\ \A k \in MembersOf(g) : measurements[k].grid = joined

\* C18's case: three grids tie with one member each and no band is called
\* "default"; the last supplied is the default one.
C18_Witness ==
    /\ pc = "returned"
    /\ Cardinality(TiedForMost) = 3
    /\ Len(measurements) = 3
    /\ measurements[3].grid = DEFAULT
    /\ measurements[1].grid = measurements[1].name
    /\ measurements[2].grid = measurements[2].name
    /\ grids[DEFAULT] = InputGrid(3)

\* C19: when the call fails while opening or reading a raster, the grid field
\* of every measurement is what it was when the call began.
C19_FailureLeavesGridFields ==
    pc = "raised" /\ error \in {"RasterioIOError", "NotImplementedError"} =>
        /\ DOMAIN measurements = DOMAIN given
        /\ \A k \in DOMAIN given : measurements[k].grid = given[k].grid

\* C19's case: the call fails after the band of an earlier measurement was
\* read and put in a group.
C19_Witness ==
    /\ pc = "raised"
    /\ error \in {"RasterioIOError", "NotImplementedError"}
    /\ Len(read) >= 2
    /\ Len(measurements_by_grid) >= 2
    /\ measurements = given

\* C12: a second call on the same measurement objects, which sees the grid
\* fields the first call wrote, returns as the first did, with the same grid
\* mapping and the same geometry, and leaves the same grid field on every
\* measurement.
C12_SecondRunSameResult ==
    run = 2 =>
        /\ pc # "raised"
        /\ pc = "returned" =>
              /\ grids = first.grids
              /\ geom = first.geom
              /\ DOMAIN measurements = DOMAIN first.measurements
              /\ \A k \in DOMAIN measurements :
                     measurements[k].grid = first.measurements[k].grid

\* C12's case: the second call has returned, and it began with two
\* measurements of one grid carrying a joined name the first call gave them.
C12_Witness ==
    /\ run = 2
    /\ pc = "returned"
    /\ \E k \in DOMAIN given : Len(given[k].grid) = 2
    /\ Cardinality(DOMAIN grids) = 2
    /\ geom # None

\* target lives inside the dataset root: the root's components begin the
\* target's, both taken absolute.
Inside(target, root) ==
    LET t == Absolute(target).parts
        r == Absolute(root).parts
    IN  Len(r) < Len(t) /\ SubSeq(t, 1, Len(r)) = r

\* C13: with a target_path, the result is the bare offset when the target
\* lives inside the dataset root, and it is not the bare offset when the
\* target does not, a sibling whose name starts with the root's included.
C13_BareOffsetOnlyInsideRoot ==
    fn = "resolve_absolute_offset" /\ fn_result # None
    /\ fn_args.target_path # None =>
        (TheValue(fn_result) = fn_args.offset
            <=> Inside(TheValue(fn_args.target_path), fn_args.dataset_path))

\* The dataset path carries a .tar suffix: its name has ".tar" among its
\* extensions, as scene.tar and scene.tar.gz do.
CarriesTar(root) ==
    LET name == root.parts[Len(root.parts)]
    IN  \E k \in 2..Len(name) : name[k] = ".tar"

\* C14: when no target_path inside the dataset root is given, the result is
\* "tar:<absolute dataset path>!<offset>" for a dataset path with a .tar
\* suffix and "<absolute dataset path>/<offset>" otherwise.
C14_ArchiveOrJoinedLocation ==
    fn = "resolve_absolute_offset" /\ fn_result # None
    /\ (fn_args.target_path = None
        \/ ~Inside(TheValue(fn_args.target_path), fn_args.dataset_path)) =>
        LET root == Str(Absolute(fn_args.dataset_path))
        IN  TheValue(fn_result) =
                IF CarriesTar(fn_args.dataset_path)
                THEN <<"tar:">> \o root \o <<"!">> \o fn_args.offset
                ELSE root \o <<"/">> \o fn_args.offset

RECURSIVE HoldsAt(_, _, _)
\* items holds val at the nested path key.
HoldsAt(items, key, val) ==
    /\ HasKey(items, <<Head(key)>>)
    /\ LET v == Lookup(items, <<Head(key)>>)
       IN  IF Len(key) = 1
           THEN v.kind = "scalar" /\ v = val
           ELSE v.kind = "dict" /\ HoldsAt(v.items, Tail(key), val)

\* C16: nest_properties does not fail, and for every key of the input the
\* output holds the key's value at the nested path of the key's pieces, also
\* when one key is the section name of another.
C16_EveryPropertyKept ==
    fn = "nest_properties" /\ fn_result # None =>
        /\ TheValue(fn_result).error = "none"
        /\ \A k \in DOMAIN fn_args :
               HoldsAt(TheValue(fn_result).items, fn_args[k].key, fn_args[k].val)

\* The (section, field) pairs that _COPYABLE_MTL_FIELDS lists.
ListedFields ==
    {<<"level1_processing_record", f>> :
        f \in {"landsat_scene_id", "landsat_product_id",
               "processing_software_version", "ground_control_points_version",
               "ground_control_points_model", "geometric_rmse_model_x",
               "geometric_rmse_model_y", "ground_control_points_verify",
               "geometric_rmse_verify"}}
    \cup {<<"product_contents", "collection_category">>}
    \cup {<<"image_attributes", f>> : f \in {"station_id", "wrs_path", "wrs_row"}}

\* C21: after the copy loop, every listed (section, field) whose value in the
\* MTL document is present and not None is the property "landsat:<field>"
\* with that value, product_contents / collection_category included, and the
\* loop has set no "landsat:" property under a name that is not listed.
C21_ListedFieldsCopied ==
    fn = "copy_mtl_fields" /\ fn_result # None =>
        LET properties == TheValue(fn_result).properties
        IN  /\ \A sf \in ListedFields :
                   (sf[2] \in DOMAIN fn_args[sf[1]] /\ fn_args[sf[1]][sf[2]] # None)
                   => /\ <<"landsat", sf[2]>> \in DOMAIN properties
                      /\ properties[<<"landsat", sf[2]>>] = fn_args[sf[1]][sf[2]]
            /\ \A k \in DOMAIN properties \ DOMAIN PropertiesBeforeCopy(fn_args) :
                   \E sf \in ListedFields : k = <<"landsat", sf[2]>>

\* The three files package derives when the caller passes none: the fmask
\* image and the gqa document named after the granule, and the fmask
\* document named after the fmask image in use.
DerivedFiles ==
    LET granule_name ==
            IF package_args.granule_name # None
            THEN TheValue(package_args.granule_name)
            ELSE Head(package_args.wagl_hdf5.name)
        image == File(package_args.wagl_hdf5.dir,
                      <<granule_name, <<"fmask">>, <<"img">>>>)
        image_used == IF package_args.fmask_image = None
                      THEN image
                      ELSE TheValue(package_args.fmask_image)
    IN  (IF package_args.fmask_image = None THEN {image} ELSE {})
        \cup (IF package_args.fmask_doc = None
              THEN {File(image_used.dir,
                         SubSeq(image_used.name, 1, Len(image_used.name) - 1)
                         \o <<<<"yaml">>>>)}
              ELSE {})
        \cup (IF package_args.gqa_doc = None
              THEN {File(package_args.wagl_hdf5.dir,
                         <<granule_name, <<"gqa">>, <<"yaml">>>>)}
              ELSE {})

\* C22: when a file that package derives is not on disk, the call raises
\* ValueError, and it does so before the level-1 document is read, before
\* the HDF5 file is opened and before anything is created for the output.
C22_MissingDerivedFileRaisesFirst ==
    package_pc # "idle" /\ ~(DerivedFiles \subseteq disk) =>
        /\ effects = <<>>
        /\ package_pc \in {"granule_name", "fmask_image", "fmask_doc",
                           "gqa_doc", "raised"}
        /\ package_pc = "raised" => package_error = "ValueError"

====
